---- MODULE Spec2Model ----
(***************************************************************************)
(* Model of pandera's parse plugin mechanism:                              *)
(*   pandera/api/base/parses.py  (multidispatch, MetaParse, BaseParse)     *)
(*   pandera/api/parses.py       (Parse)                                   *)
(*                                                                         *)
(* Three specifications share the module:                                  *)
(*   Spec        the class-level registries, attribute lookup, dispatch    *)
(*   SpecEq      __eq__ / __hash__ of Parse objects                        *)
(*   SpecPickle  save / restore of the multidispatch wrapper               *)
(***************************************************************************)
EXTENDS Integers, Sequences, FiniteSets, TLC

VARIABLES
    BACKEND_REGISTRY,          \* MetaParse.BACKEND_REGISTRY  : (cls, type) -> backend
    Parse_FUNCTION_REGISTRY,   \* MetaParse.Parse_FUNCTION_REGISTRY : name -> wrapper
    REGISTERED_CUSTOM_PARSES,  \* MetaParse.REGISTERED_CUSTOM_PARSES : name -> callable
    call,                      \* the last call made on a parse class
    ret,                       \* its outcome: a returned value or a raised exception
    lhs,                       \* left operand of the last comparison (a Parse object)
    rhs,                       \* right operand of the last comparison
    cmp,                       \* outcome of __eq__ / __hash__ on (lhs, rhs)
    md,                        \* a live multidispatch wrapper
    pickled,                   \* the value __reduce__ returned for md
    restored,                  \* the wrapper rebuilt from pickled
    dsp                        \* outcome of the last dispatch on md and restored

regVars    == <<BACKEND_REGISTRY, Parse_FUNCTION_REGISTRY, REGISTERED_CUSTOM_PARSES,
                call, ret>>
eqVars     == <<lhs, rhs, cmp>>
pickleVars == <<md, pickled, restored, dsp>>
vars       == <<BACKEND_REGISTRY, Parse_FUNCTION_REGISTRY, REGISTERED_CUSTOM_PARSES,
                call, ret, lhs, rhs, cmp, md, pickled, restored, dsp>>

None == "None"

(***************************************************************************)
(* Bounds                                                                  *)
(***************************************************************************)
MaxEntries     == 2   \* entries held by BACKEND_REGISTRY
RecursionLimit == 4   \* interpreter stack depth at which RecursionError is raised
MaxVariants    == 3   \* register() calls on one multidispatch wrapper
HashModulus    == 7   \* range of hash()

(***************************************************************************)
(* Types.  getmro gives inspect.getmro(type): the type itself first, then  *)
(* its ancestors, most specific first, ending in object.                   *)
(***************************************************************************)
DataTypes == {"object", "NDFrame", "Series", "DataFrame", "Hybrid"}

OwningClasses == {"BaseParse", "Parse"}

getmro(t) ==
    CASE t = "object"    -> <<"object">>
      [] t = "NDFrame"   -> <<"NDFrame", "object">>
      [] t = "Series"    -> <<"Series", "NDFrame", "object">>
      [] t = "DataFrame" -> <<"DataFrame", "NDFrame", "object">>
      [] t = "Hybrid"    -> <<"Hybrid", "Series", "DataFrame", "NDFrame", "object">>
      [] t = "BaseParse" -> <<"BaseParse", "object">>
      [] t = "Parse"     -> <<"Parse", "BaseParse", "object">>
      [] t = "SubParse"  -> <<"SubParse", "Parse", "BaseParse", "object">>
      [] t = "str"       -> <<"str", "object">>
      [] OTHER           -> <<t, "object">>

Range(s) == {s[i] : i \in 1..Len(s)}

isinstance(cls_of_obj, cls) == cls \in Range(getmro(cls_of_obj))

Backends == {"SeriesBackend", "FrameBackend"}

(***************************************************************************)
(* Python dict: a function whose domain is the set of keys present.        *)
(***************************************************************************)
EmptyDict == [k \in {} |-> None]

SetItem(d, k, v) == [x \in (DOMAIN d) \cup {k} |-> IF x = k THEN v ELSE d[x]]

\* {**a, **b}: entries of b override entries of a
Merge(a, b) == [x \in (DOMAIN a) \cup (DOMAIN b) |-> IF x \in DOMAIN b THEN b[x] ELSE a[x]]

(***************************************************************************)
(* Outcomes of a call.                                                     *)
(***************************************************************************)
Return(v)   == [kind |-> "return", exc |-> None, value |-> v]
Raise(e, v) == [kind |-> "raise", exc |-> e, value |-> v]

(***************************************************************************)
(* Function objects.  __name__, __code__.co_code (the bytecode, without    *)
(* the constants) and the annotated signature of each.                     *)
(***************************************************************************)
Functions == {"is_positive", "is_positive_series", "is_positive_frame",
              "is_positive_series_v2", "above_one", "is_even"}

FnName(f) ==
    CASE f = "above_one" -> "above_one"
      [] f = "is_even"   -> "is_even"
      [] OTHER           -> "is_positive"

co_code(f) ==
    CASE f = "is_positive"           -> <<100, 1>>
      [] f = "above_one"             -> <<100, 1>>
      [] f = "is_positive_series"    -> <<100, 2>>
      [] f = "is_positive_frame"     -> <<100, 3>>
      [] f = "is_positive_series_v2" -> <<100, 2, 5>>
      [] OTHER                       -> <<116>>

Hints(f) ==
    CASE f = "is_even"               -> <<"object">>
      [] f = "is_positive_series"    -> <<"Series">>
      [] f = "is_positive_series_v2" -> <<"Series">>
      [] f = "is_positive_frame"     -> <<"DataFrame">>
      [] OTHER                       -> <<>>

(***************************************************************************)
(* multidispatch: an insertion-ordered table signature -> function, plus   *)
(* the instance __dict__ (attrs).                                          *)
(***************************************************************************)
RECURSIVE IndexOfKey(_, _, _)
IndexOfKey(table, key, i) ==
    IF i > Len(table) THEN 0
    ELSE IF table[i].key = key THEN i
    ELSE IndexOfKey(table, key, i + 1)

\* table[key] = fn : an existing key keeps its position, a new one goes last
TableSet(table, key, fn) ==
    LET i == IndexOfKey(table, key, 1)
    IN  IF i = 0 THEN Append(table, [key |-> key, fn |-> fn])
        ELSE [table EXCEPT ![i] = [key |-> key, fn |-> fn]]

\* [*self.values()]
Values(table) == [i \in 1..Len(table) |-> table[i].fn]

\* self.register(fn): file fn under its annotated signature
register(w, fn) == [w EXCEPT !.table = TableSet(w.table, Hints(fn), fn)]

\* multidispatch(fn): wraps fn (update_wrapper copies __name__, sets
\* __wrapped__) and registers it as the base function
multidispatch(fn) ==
    register([kind  |-> "multidispatch",
              table |-> <<>>,
              attrs |-> [name |-> FnName(fn), wrapped |-> fn, registered_functions |-> None]],
             fn)

\* multidispatch.__reduce__(self): state is self.__dict__ itself, so the list
\* of registered functions is written into the live wrapper as well
reduce(w) ==
    LET state == [w.attrs EXCEPT !.registered_functions = Values(w.table)]
    IN  [callable |-> "multidispatch", args |-> <<state.wrapped>>, state |-> state]

RECURSIVE RegisterAll(_, _, _)
RegisterAll(w, fns, i) ==
    IF i > Len(fns) THEN w
    ELSE RegisterAll(register(w, fns[i]), fns, i + 1)

\* a restore that takes the state over and re-registers nothing
setstate_attrs_only(w, state) == [w EXCEPT !.attrs = state]

\* multidispatch.__setstate__(self, state)
setstate(w, state) ==
    RegisterAll([w EXCEPT !.attrs = state], state.registered_functions, 1)

\* pickle.loads: call the creation function on its arguments, then __setstate__
Rebuild(p) == setstate(multidispatch(p.args[1]), p.state)

RECURSIVE DispatchWalk(_, _, _)
DispatchWalk(table, mro, i) ==
    IF i > Len(mro)
    THEN IF IndexOfKey(table, <<>>, 1) # 0
         THEN Return(table[IndexOfKey(table, <<>>, 1)].fn)
         ELSE Raise("DispatchError", mro[1])
    ELSE IF IndexOfKey(table, <<mro[i]>>, 1) # 0
         THEN Return(table[IndexOfKey(table, <<mro[i]>>, 1)].fn)
         ELSE DispatchWalk(table, mro, i + 1)

\* w(arg), arg an instance of t: the function filed under the nearest
\* ancestor of t, else the unannotated one
Dispatch(w, t) == DispatchWalk(w.table, getmro(t), 1)

(***************************************************************************)
(* Attribute lookup on a parse class.                                      *)
(***************************************************************************)
\* names bound in the body of class MetaParse
MetaNamespace == {"BACKEND_REGISTRY", "Parse_FUNCTION_REGISTRY", "REGISTERED_CUSTOM_PARSES",
                  "__getattr__", "__dir__", "__contains__"}

\* names bound in the body of each parse class (cls.__dict__)
ClassDict(c) ==
    CASE c = "BaseParse" -> {"register_builtin_parse_fn", "get_builtin_parse_fn",
                             "from_builtin_parse_name", "register_backend", "get_backend",
                             "__init__", "__eq__", "__hash__", "__repr__", "_get_parse_fn_code"}
      [] c = "Parse"     -> {"__init__", "__call__"}
      [] OTHER           -> {}

\* the dict object a registry name of MetaParse is bound to
Deref(ref) ==
    CASE ref = "BACKEND_REGISTRY"         -> BACKEND_REGISTRY
      [] ref = "Parse_FUNCTION_REGISTRY"  -> Parse_FUNCTION_REGISTRY
      [] ref = "REGISTERED_CUSTOM_PARSES" -> REGISTERED_CUSTOM_PARSES
      [] OTHER                            -> EmptyDict

RecursionError == Raise("RecursionError", "maximum recursion depth exceeded")

\* the message of the AttributeError MetaParse.__getattr__ raises
UnregisteredName(c, name) ==
    Raise("AttributeError",
          [cls |-> c, attribute |-> name,
           advice |-> "Make sure any custom parses have been registered using the extensions api."])

RECURSIVE ClassGetAttribute(_, _, _)
RECURSIVE MetaGetattr(_, _, _)

\* cls.name : the class and its bases first, then the metaclass, then the
\* metaclass's __getattr__ hook.  depth is the height of the call stack.
ClassGetAttribute(c, name, depth) ==
    IF \E i \in 1..Len(getmro(c)) : name \in ClassDict(getmro(c)[i])
    THEN Return([attr |-> name])
    ELSE IF name \in MetaNamespace
    THEN Return([ref |-> name])
    ELSE MetaGetattr(c, name, depth + 1)

\* MetaParse.__getattr__(cls, name)
MetaGetattr(c, name, depth) ==
    IF depth > RecursionLimit THEN RecursionError
    ELSE
    LET builtin == ClassGetAttribute(c, "PARSE_FUNCTION_REGISTRY", depth)
    IN  IF builtin.kind = "raise" THEN builtin
        ELSE
        LET custom == ClassGetAttribute(c, "REGISTERED_CUSTOM_PARSES", depth)
        IN  IF custom.kind = "raise" THEN custom
            ELSE
            LET own    == [n \in ClassDict(c) |-> [attr |-> n]]
                merged == Merge(Merge(own, Deref(builtin.value.ref)), Deref(custom.value.ref))
            IN  IF name \in DOMAIN merged
                THEN Return(merged[name])
                ELSE UnregisteredName(c, name)

(***************************************************************************)
(* BaseParse classmethods                                                  *)
(***************************************************************************)
\* a message that names the type but not the chain searched
BackendNotFound_type_only(parse_obj_cls, classes) ==
    Raise("KeyError", [parse_obj_cls |-> parse_obj_cls, classes |-> <<parse_obj_cls>>])

\* the message of the KeyError get_backend raises
BackendNotFound(parse_obj_cls, classes) ==
    Raise("KeyError", [parse_obj_cls |-> parse_obj_cls, classes |-> classes])

RECURSIVE WalkMro(_, _, _, _)
WalkMro(registry, c, classes, i) ==
    IF i > Len(classes) THEN BackendNotFound(classes[1], classes)
    ELSE IF <<c, classes[i]>> \in DOMAIN registry
    THEN Return(registry[<<c, classes[i]>>])
    ELSE WalkMro(registry, c, classes, i + 1)

\* a lookup of the exact type only, without the walk up its ancestors
get_backend_exact_type(c, parse_obj_cls) ==
    LET registry == ClassGetAttribute(c, "BACKEND_REGISTRY", 0)
    IN  IF registry.kind = "raise" THEN registry
        ELSE IF <<c, parse_obj_cls>> \in DOMAIN Deref(registry.value.ref)
        THEN Return(Deref(registry.value.ref)[<<c, parse_obj_cls>>])
        ELSE BackendNotFound(parse_obj_cls, getmro(parse_obj_cls))

\* a lookup that falls back to the registrations of the owning class's bases
get_backend_inherited(c, parse_obj_cls) ==
    LET registry == ClassGetAttribute(c, "BACKEND_REGISTRY", 0)
        own      == WalkMro(Deref(registry.value.ref), c, getmro(parse_obj_cls), 1)
    IN  IF own.kind = "raise" /\ c # "BaseParse"
        THEN WalkMro(Deref(registry.value.ref), "BaseParse", getmro(parse_obj_cls), 1)
        ELSE own

\* cls.get_backend(parse_obj), parse_obj an instance of parse_obj_cls
get_backend(c, parse_obj_cls) ==
    LET registry == ClassGetAttribute(c, "BACKEND_REGISTRY", 0)
    IN  IF registry.kind = "raise" THEN registry
        ELSE WalkMro(Deref(registry.value.ref), c, getmro(parse_obj_cls), 1)

\* cls.get_builtin_parse_fn(name)
get_builtin_parse_fn(c, name) ==
    LET registry == ClassGetAttribute(c, "PARSE_FUNCTION_REGISTRY", 0)
    IN  IF registry.kind = "raise" THEN registry
        ELSE IF name \in DOMAIN Deref(registry.value.ref)
        THEN Return(Deref(registry.value.ref)[name])
        ELSE Raise("KeyError", name)

(***************************************************************************)
(* Spec: calls on the parse classes                                        *)
(***************************************************************************)
\* the user-registered parse function of the behaviours explored
CustomFunctions == {"is_even"}

BuiltinFunctions == {"is_positive", "is_positive_series", "above_one"}

\* names looked up on a parse class
LookupNames == {"is_positive", "is_even", "not_registered", "get_backend"}

Columns == {None, "col"}

Called(op, c, args) == [op |-> op, cls |-> c, args |-> args]

NoCall == Called(None, None, <<>>)

NoWrapper == [kind |-> "NoneType"]

NoPickle == [callable |-> None, of |-> NoWrapper]

NoDispatch == [on |-> None, arg |-> None, out |-> Return(None)]

\* no comparison made on the operands as they are now
NoCmp == [op |-> None, out |-> <<>>]

\* d[k] = v on the dict object that ref names; the other registries are untouched
StoreInto(ref, k, v) ==
    /\ BACKEND_REGISTRY' =
         IF ref = "BACKEND_REGISTRY" THEN SetItem(BACKEND_REGISTRY, k, v)
         ELSE BACKEND_REGISTRY
    /\ Parse_FUNCTION_REGISTRY' =
         IF ref = "Parse_FUNCTION_REGISTRY" THEN SetItem(Parse_FUNCTION_REGISTRY, k, v)
         ELSE Parse_FUNCTION_REGISTRY
    /\ REGISTERED_CUSTOM_PARSES' =
         IF ref = "REGISTERED_CUSTOM_PARSES" THEN SetItem(REGISTERED_CUSTOM_PARSES, k, v)
         ELSE REGISTERED_CUSTOM_PARSES

\* a registration that keeps an entry already present (setdefault)
register_backend_keep_first(c, type_, backend) ==
    /\ \/ <<c, type_>> \in DOMAIN BACKEND_REGISTRY
       \/ Cardinality(DOMAIN BACKEND_REGISTRY) < MaxEntries
    /\ call' = Called("register_backend", c, <<type_, backend>>)
    /\ ret' = Return(None)
    /\ BACKEND_REGISTRY' = IF <<c, type_>> \in DOMAIN BACKEND_REGISTRY THEN BACKEND_REGISTRY
                           ELSE SetItem(BACKEND_REGISTRY, <<c, type_>>, backend)
    /\ UNCHANGED <<Parse_FUNCTION_REGISTRY, REGISTERED_CUSTOM_PARSES, eqVars, pickleVars>>

\* cls.register_backend(type_, backend)
register_backend(c, type_, backend) ==
    LET registry == ClassGetAttribute(c, "BACKEND_REGISTRY", 0)
    IN  /\ \/ <<c, type_>> \in DOMAIN BACKEND_REGISTRY
           \/ Cardinality(DOMAIN BACKEND_REGISTRY) < MaxEntries
        /\ call' = Called("register_backend", c, <<type_, backend>>)
        /\ IF registry.kind = "raise"
           THEN /\ ret' = registry
                /\ UNCHANGED <<BACKEND_REGISTRY, Parse_FUNCTION_REGISTRY,
                               REGISTERED_CUSTOM_PARSES>>
           ELSE /\ ret' = Return(None)
                /\ StoreInto(registry.value.ref, <<c, type_>>, backend)
        /\ UNCHANGED <<eqVars, pickleVars>>

\* cls.get_backend(parse_obj)
GetBackend(c, parse_obj_cls) ==
    /\ call' = Called("get_backend", c, <<parse_obj_cls>>)
    /\ ret' = get_backend(c, parse_obj_cls)
    /\ UNCHANGED <<BACKEND_REGISTRY, Parse_FUNCTION_REGISTRY, REGISTERED_CUSTOM_PARSES,
                   eqVars, pickleVars>>

\* cls.register_builtin_parse_fn(fn)
register_builtin_parse_fn(c, fn) ==
    LET registry == ClassGetAttribute(c, "PARSE_FUNCTION_REGISTRY", 0)
    IN  /\ call' = Called("register_builtin_parse_fn", c, <<fn>>)
        /\ IF registry.kind = "raise"
           THEN /\ ret' = registry
                /\ UNCHANGED <<BACKEND_REGISTRY, Parse_FUNCTION_REGISTRY,
                               REGISTERED_CUSTOM_PARSES>>
           ELSE /\ ret' = Return(fn)
                /\ StoreInto(registry.value.ref, FnName(fn), multidispatch(fn))
        /\ UNCHANGED <<eqVars, pickleVars>>

\* cls.get_builtin_parse_fn(name)
GetBuiltinParseFn(c, name) ==
    /\ call' = Called("get_builtin_parse_fn", c, <<name>>)
    /\ ret' = get_builtin_parse_fn(c, name)
    /\ UNCHANGED <<BACKEND_REGISTRY, Parse_FUNCTION_REGISTRY, REGISTERED_CUSTOM_PARSES,
                   eqVars, pickleVars>>

\* cls.<name> : attribute-style access on the class
GetAttr(c, name) ==
    /\ call' = Called("getattr", c, <<name>>)
    /\ ret' = ClassGetAttribute(c, name, 0)
    /\ UNCHANGED <<BACKEND_REGISTRY, Parse_FUNCTION_REGISTRY, REGISTERED_CUSTOM_PARSES,
                   eqVars, pickleVars>>

\* the extensions api files a user's parse function under its name
RegisterCustomParse(fn) ==
    /\ call' = Called("register_custom_parse", "Parse", <<fn>>)
    /\ ret' = Return(fn)
    /\ REGISTERED_CUSTOM_PARSES' = SetItem(REGISTERED_CUSTOM_PARSES, FnName(fn), fn)
    /\ UNCHANGED <<BACKEND_REGISTRY, Parse_FUNCTION_REGISTRY, eqVars, pickleVars>>

\* Parse.__call__(self, parse_obj, column), self an instance of class c:
\* the backend is looked up through type(self) and the call is delegated
Invoke(c, parse_obj_cls, column) ==
    LET backend == get_backend(c, parse_obj_cls)
    IN  /\ call' = Called("__call__", c, <<parse_obj_cls, column>>)
        /\ ret' = IF backend.kind = "raise" THEN backend
                  ELSE Return([backend |-> backend.value, parse_cls |-> c,
                               parse_obj |-> parse_obj_cls, column |-> column])
        /\ UNCHANGED <<BACKEND_REGISTRY, Parse_FUNCTION_REGISTRY, REGISTERED_CUSTOM_PARSES,
                       eqVars, pickleVars>>


Init ==
    /\ BACKEND_REGISTRY = EmptyDict
    /\ Parse_FUNCTION_REGISTRY = EmptyDict
    /\ REGISTERED_CUSTOM_PARSES = EmptyDict
    /\ call = NoCall
    /\ ret = Return(None)
    /\ lhs = None /\ rhs = None /\ cmp = NoCmp
    /\ md = NoWrapper /\ pickled = NoPickle /\ restored = NoWrapper /\ dsp = NoDispatch

Next ==
    \/ \E c \in OwningClasses, t \in DataTypes, b \in Backends : register_backend(c, t, b)
    \/ \E c \in OwningClasses, t \in DataTypes : GetBackend(c, t)
    \/ \E c \in OwningClasses, fn \in BuiltinFunctions : register_builtin_parse_fn(c, fn)
    \/ \E c \in OwningClasses, fn \in BuiltinFunctions : GetBuiltinParseFn(c, FnName(fn))
    \/ \E c \in OwningClasses, name \in LookupNames : GetAttr(c, name)
    \/ \E fn \in CustomFunctions : RegisterCustomParse(fn)
    \/ \E t \in DataTypes, column \in Columns : Invoke("Parse", t, column)

Spec == Init /\ [][Next]_vars

(***************************************************************************)
(* Properties of Spec                                                      *)
(***************************************************************************)
Registered(c, t) == <<c, t>> \in DOMAIN BACKEND_REGISTRY

\* t is the first type of the chain mro, most specific first, registered under c
FirstRegistered(c, mro, i) ==
    /\ Registered(c, mro[i])
    /\ \A j \in 1..(i - 1) : ~Registered(c, mro[j])

\* C1: get_backend on owning class c returns the backend registered under
\* (c, A), A the first type of the method-resolution order of type(obj) that
\* has a registration under c: the nearest registered ancestor wins, the
\* type's own registration before any ancestor's.
C1_FirstRegisteredAncestor ==
    call.op = "get_backend" =>
        LET mro == getmro(call.args[1])
        IN  \A i \in 1..Len(mro) :
                FirstRegistered(call.cls, mro, i) =>
                    ret = Return(BACKEND_REGISTRY[<<call.cls, mro[i]>>])

\* an instance of Hybrid (bases Series, DataFrame), both bases registered with
\* different backends and Hybrid itself not: the Series backend is returned
C1_Witness ==
    /\ call.op = "get_backend"
    /\ call.args[1] = "Hybrid"
    /\ ~Registered(call.cls, "Hybrid")
    /\ Registered(call.cls, "Series")
    /\ Registered(call.cls, "DataFrame")
    /\ BACKEND_REGISTRY[<<call.cls, "Series">>] # BACKEND_REGISTRY[<<call.cls, "DataFrame">>]
    /\ ret = Return(BACKEND_REGISTRY[<<call.cls, "Series">>])

\* C4: get_backend fails with the backend-not-found KeyError exactly when no
\* type of the method-resolution order of type(obj) is registered under the
\* owning class; the error names type(obj) and its full ancestor chain, and
\* the call leaves the backend registry as it was.
C4_BackendNotFound ==
    [][call'.op = "get_backend" =>
        LET c   == call'.cls
            t   == call'.args[1]
            mro == getmro(t)
        IN  /\ BACKEND_REGISTRY' = BACKEND_REGISTRY
            /\ (ret'.kind = "raise") <=> (\A i \in 1..Len(mro) : ~Registered(c, mro[i]))
            /\ ret'.kind = "raise" =>
                 /\ ret'.exc = "KeyError"
                 /\ ret'.value.parse_obj_cls = t
                 /\ ret'.value.classes = mro]_vars

\* a failed lookup for a Hybrid instance while the registry holds entries
C4_Witness ==
    /\ call.op = "get_backend"
    /\ call.args[1] = "Hybrid"
    /\ ret.kind = "raise"
    /\ ret.exc = "KeyError"
    /\ ret.value.classes = <<"Hybrid", "Series", "DataFrame", "NDFrame", "object">>
    /\ DOMAIN BACKEND_REGISTRY # {}

\* C8: register_backend(T, B) on owning class C makes B the entry of (C, T)
\* and leaves every other entry as it was; no other call writes the registry,
\* so the entry of a pair is the backend of the latest registration for it.
C8_RegisterBackendFrame ==
    [][IF call'.op = "register_backend"
       THEN LET key == <<call'.cls, call'.args[1]>>
            IN  /\ key \in DOMAIN BACKEND_REGISTRY'
                /\ BACKEND_REGISTRY'[key] = call'.args[2]
                /\ DOMAIN BACKEND_REGISTRY' = DOMAIN BACKEND_REGISTRY \cup {key}
                /\ \A k \in DOMAIN BACKEND_REGISTRY \ {key} :
                       BACKEND_REGISTRY'[k] = BACKEND_REGISTRY[k]
       ELSE BACKEND_REGISTRY' = BACKEND_REGISTRY]_vars

\* a registration made while another pair is registered with the other backend
C8_Witness ==
    /\ call.op = "register_backend"
    /\ BACKEND_REGISTRY[<<call.cls, call.args[1]>>] = call.args[2]
    /\ \E k \in DOMAIN BACKEND_REGISTRY :
           k # <<call.cls, call.args[1]>> /\ BACKEND_REGISTRY[k] # call.args[2]

\* C10: a parse class is served only from its own registrations: what
\* C.get_backend (and a Parse instance's call, through type(self)) returns is
\* an entry stored under (C, ancestor of type(obj)), and when no such entry
\* exists the lookup fails with backend-not-found whatever other classes hold.
C10_PerClassIsolation ==
    call.op \in {"get_backend", "__call__"} =>
        LET mro  == getmro(call.args[1])
            mine == {i \in 1..Len(mro) : Registered(call.cls, mro[i])}
        IN  IF mine = {}
            THEN ret.kind = "raise" /\ ret.exc = "KeyError"
            ELSE /\ ret.kind = "return"
                 /\ \E i \in mine :
                        BACKEND_REGISTRY[<<call.cls, mro[i]>>] =
                            (IF call.op = "__call__" THEN ret.value.backend ELSE ret.value)

\* Parse finds nothing although its base class BaseParse holds a registration
\* for the type
C10_Witness ==
    /\ call.op = "get_backend"
    /\ call.cls = "Parse"
    /\ Registered("BaseParse", call.args[1])
    /\ \A t \in DataTypes : ~Registered("Parse", t)
    /\ ret.kind = "raise"
    /\ ret.exc = "KeyError"

\* C2: register_builtin_parse_fn(fn) returns fn and files a wrapper of fn
\* under fn's name, which get_builtin_parse_fn then returns; a later
\* registration under the same name replaces the entry.
C2_RegisterBuiltinStoresWrapper ==
    call.op = "register_builtin_parse_fn" =>
        /\ ret = Return(call.args[1])
        /\ get_builtin_parse_fn(call.cls, FnName(call.args[1]))
               = Return(multidispatch(call.args[1]))

\* C3: attribute access on the parse class for a name that is no ordinary
\* attribute returns the registered callable when the built-in or the custom
\* registry holds the name, and fails with the unregistered-name
\* AttributeError exactly when neither does.
C3_AttributeAccess ==
    (call.op = "getattr" /\ call.args[1] \notin {"get_backend"}) =>
        IF call.args[1] \in DOMAIN Parse_FUNCTION_REGISTRY \cup DOMAIN REGISTERED_CUSTOM_PARSES
        THEN ret.kind = "return"
        ELSE ret = UnregisteredName(call.cls, call.args[1])

(***************************************************************************)
(* Parse objects: construction, __eq__, __hash__                           *)
(***************************************************************************)
Fn(f) == [kind |-> "function", fn |-> f]

\* functools.partial(func, *args, **keywords)
Partial(func, args, keywords) ==
    [kind |-> "partial", func |-> func, args |-> args, keywords |-> keywords]

\* an instance of a class that defines __call__ : it has no __code__
CallableObject == [kind |-> "object", cls |-> "IsPositive"]

True == "True"
False == "False"
NotImplemented == "NotImplemented"

Bool(b) == IF b THEN True ELSE False

\* getattr(parse_fn, "__name__", parse_fn.__class__.__name__)
CallableName(f) ==
    CASE f.kind = "function"      -> FnName(f.fn)
      [] f.kind = "multidispatch" -> f.attrs.name
      [] f.kind = "partial"       -> "partial"
      [] OTHER                    -> f.cls

\* Parse.__init__ run for an instance of class c
ParseInit(c, parse_fn, element_wise, name, title, description, parse_kwargs) ==
    [cls  |-> c,
     dict |-> [_parse_fn     |-> parse_fn,
               _parse_kwargs |-> parse_kwargs,
               element_wise  |-> element_wise,
               name          |-> IF name \notin {None, ""} THEN name
                                 ELSE CallableName(parse_fn),
               title         |-> title,
               description   |-> description]]

\* obj.strategy = strategy
SetAttrStrategy(obj, strategy) ==
    [obj EXCEPT !.dict = [k \in DOMAIN obj.dict \cup {"strategy"} |->
                              IF k = "strategy" THEN strategy ELSE obj.dict[k]]]

\* f.__code__.co_code
CodeOf(f) ==
    CASE f.kind = "function" -> Return(co_code(f.fn))
      [] f.kind = "multidispatch" ->
            IF Len(f.table) > 0 THEN Return(co_code(f.table[1].fn))
            ELSE Raise("AssertionError", "no functions registered")
      [] OTHER -> Raise("AttributeError", "__code__")

\* self._get_parse_fn_code()
get_parse_fn_code(self) ==
    IF "_parse_fn" \notin DOMAIN self.dict THEN Raise("KeyError", "_parse_fn")
    ELSE
    LET parse_fn == self.dict["_parse_fn"]
        code     == CodeOf(parse_fn)
    IN  IF code.kind = "raise" /\ code.exc = "AttributeError"
        THEN IF parse_fn.kind = "partial" THEN CodeOf(parse_fn.func)
             ELSE Raise("AttributeError", "func")
        ELSE code

\* self.__dict__.get("strategy")
GetStrategy(obj) ==
    IF "strategy" \in DOMAIN obj.dict THEN obj.dict["strategy"] ELSE [kind |-> "NoneType"]

\* whether getattr(strategy, "func" | "args" | "keywords") succeeds
HasPartialAttrs(strategy) == strategy.kind = "partial"

\* the try / except AttributeError block of __eq__
are_strategy_fn_objects_equal(self, other) ==
    LET a == GetStrategy(self)
        b == GetStrategy(other)
    IN  IF HasPartialAttrs(a) /\ HasPartialAttrs(b)
        THEN a.func = b.func /\ a.args = b.args /\ a.keywords = b.keywords
        ELSE TRUE

\* {k: v for k, v in obj.__dict__.items() if k not in ["_parse_fn", "strategy"]}
OtherAttributes(obj) ==
    [k \in DOMAIN obj.dict \ {"_parse_fn", "strategy"} |-> obj.dict[k]]

\* a comparison that skips the isinstance test
ParseEq_no_type_test(self, other) ==
    LET a == get_parse_fn_code(self)
        b == get_parse_fn_code(other)
    IN  IF a.kind = "raise" THEN a
        ELSE IF b.kind = "raise" THEN b
        ELSE Return(Bool(/\ a.value = b.value
                         /\ are_strategy_fn_objects_equal(self, other)
                         /\ OtherAttributes(self) = OtherAttributes(other)))

\* BaseParse.__eq__(self, other)
ParseEq(self, other) ==
    IF ~isinstance(other.cls, self.cls) THEN Return(NotImplemented)
    ELSE
    LET a == get_parse_fn_code(self)
        b == get_parse_fn_code(other)
    IN  IF a.kind = "raise" THEN a
        ELSE IF b.kind = "raise" THEN b
        ELSE Return(Bool(/\ a.value = b.value
                         /\ are_strategy_fn_objects_equal(self, other)
                         /\ OtherAttributes(self) = OtherAttributes(other)))

\* hash() of a bytes object
RECURSIVE HashBytes(_)
HashBytes(b) ==
    IF Len(b) = 0 THEN 0
    ELSE (HashBytes(SubSeq(b, 1, Len(b) - 1)) * 31 + b[Len(b)]) % HashModulus

\* a hash that also mixes in the name of the parse
ParseHash_with_name(self) ==
    LET code == get_parse_fn_code(self)
    IN  IF code.kind = "raise" THEN code
        ELSE Return((HashBytes(code.value) + Len(self.dict["name"])) % HashModulus)

\* BaseParse.__hash__(self)
ParseHash(self) ==
    LET code == get_parse_fn_code(self)
    IN  IF code.kind = "raise" THEN code
        ELSE Return(HashBytes(code.value))

(***************************************************************************)
(* SpecEq: two objects, attribute assignment, comparison and hashing       *)
(***************************************************************************)
ParseFns == {Fn("is_positive"), Fn("above_one"), Fn("is_even"),
             Partial(Fn("is_positive"), <<>>, {}), multidispatch("is_positive"),
             CallableObject}

\* the optional arguments given to Parse(...)
OptionalArgs(element_wise, name, title, description, parse_kwargs) ==
    [element_wise |-> element_wise, name |-> name, title |-> title,
     description |-> description, parse_kwargs |-> parse_kwargs]

ArgSets == {OptionalArgs(FALSE, None, None, None, {}),
            OptionalArgs(TRUE, None, None, None, {}),
            OptionalArgs(FALSE, "is_positive", None, None, {}),
            OptionalArgs(FALSE, None, "Positive", None, {}),
            OptionalArgs(FALSE, None, None, "values above zero", {}),
            OptionalArgs(FALSE, None, None, None, {<<"min_value", "0">>}),
            OptionalArgs(TRUE, "is_positive", "Positive", "values above zero",
                         {<<"min_value", "0">>})}

ParseObjects ==
    {ParseInit(c, f, a.element_wise, a.name, a.title, a.description, a.parse_kwargs) :
        c \in {"Parse", "SubParse"}, f \in ParseFns, a \in ArgSets}

\* an object that is no parse at all
NonParse == [cls |-> "str", dict |-> [k \in {} |-> None]]

\* data-generation strategies: partial applications of a strategy function
Strategies == {Partial(Fn("is_even"), <<"1">>, {}), Partial(Fn("is_even"), <<"2">>, {})}

\* lhs.strategy = s  or  rhs.strategy = s
SetStrategy(left, s) ==
    /\ IF left THEN /\ lhs' = SetAttrStrategy(lhs, s)
                    /\ rhs' = rhs
               ELSE /\ rhs.cls # "str"
                    /\ rhs' = SetAttrStrategy(rhs, s)
                    /\ lhs' = lhs
    /\ cmp' = NoCmp
    /\ UNCHANGED <<regVars, pickleVars>>

\* lhs.__eq__(rhs)
CallEq ==
    /\ cmp' = [op |-> "__eq__", out |-> <<ParseEq(lhs, rhs)>>]
    /\ UNCHANGED <<lhs, rhs, regVars, pickleVars>>

\* hash(lhs), hash(rhs)
CallHash ==
    /\ rhs.cls # "str"
    /\ cmp' = [op |-> "__hash__", out |-> <<ParseHash(lhs), ParseHash(rhs)>>]
    /\ UNCHANGED <<lhs, rhs, regVars, pickleVars>>

InitEq ==
    /\ lhs \in ParseObjects
    /\ rhs \in ParseObjects \cup {NonParse}
    /\ cmp = NoCmp
    /\ BACKEND_REGISTRY = EmptyDict
    /\ Parse_FUNCTION_REGISTRY = EmptyDict
    /\ REGISTERED_CUSTOM_PARSES = EmptyDict
    /\ call = NoCall
    /\ ret = Return(None)
    /\ md = NoWrapper /\ pickled = NoPickle /\ restored = NoWrapper /\ dsp = NoDispatch

NextEq ==
    \/ \E left \in BOOLEAN, s \in Strategies : SetStrategy(left, s)
    \/ CallEq
    \/ CallHash

SpecEq == InitEq /\ [][NextEq]_vars

(***************************************************************************)
(* Properties of SpecEq                                                    *)
(***************************************************************************)
HasCode(obj) == obj.cls # "str" /\ get_parse_fn_code(obj).kind = "return"

SameCode(a, b) == get_parse_fn_code(a).value = get_parse_fn_code(b).value

HasStrategy(obj) == "strategy" \in DOMAIN obj.dict

\* equality of strategies as documented: absent on both sides, or present on
\* both with equal function, positional arguments and keyword arguments
StrategiesMatch(a, b) ==
    \/ ~HasStrategy(a) /\ ~HasStrategy(b)
    \/ /\ HasStrategy(a) /\ HasStrategy(b)
       /\ a.dict["strategy"].func = b.dict["strategy"].func
       /\ a.dict["strategy"].args = b.dict["strategy"].args
       /\ a.dict["strategy"].keywords = b.dict["strategy"].keywords

StoredAttributes == {"name", "title", "description", "element_wise", "_parse_kwargs"}

\* C5: two Parse objects of the same concrete class are equal iff their
\* callables have identical compiled code, their strategies match (absent on
\* both sides, or equal function, args and keywords) and every other stored
\* attribute is equal; a strategy on one side only makes them unequal.
C5_EqualityIffAllThree ==
    (/\ cmp.op = "__eq__"
     /\ lhs.cls = rhs.cls
     /\ HasCode(lhs) /\ HasCode(rhs)) =>
        (cmp.out[1] = Return(True)
            <=> /\ SameCode(lhs, rhs)
                /\ StrategiesMatch(lhs, rhs)
                /\ \A k \in StoredAttributes : lhs.dict[k] = rhs.dict[k])

\* C6: the hash of a Parse depends only on the compiled code of its
\* callable: identical code gives identical hashes whatever the name, title,
\* description, element_wise flag, keyword configuration or strategy, and
\* objects that compare equal hash equal.
C6_HashFromCodeOnly ==
    (/\ cmp.op = "__hash__"
     /\ HasCode(lhs) /\ HasCode(rhs)) =>
        /\ cmp.out[1].kind = "return" /\ cmp.out[2].kind = "return"
        /\ SameCode(lhs, rhs) => cmp.out[1] = cmp.out[2]
        /\ ParseEq(lhs, rhs) = Return(True) => cmp.out[1] = cmp.out[2]

\* same code, different name and title, a strategy on one side: the objects
\* compare unequal and share their hash
C6_Witness ==
    /\ cmp.op = "__hash__"
    /\ HasCode(lhs) /\ HasCode(rhs)
    /\ lhs.cls = rhs.cls
    /\ SameCode(lhs, rhs)
    /\ lhs.dict["name"] # rhs.dict["name"]
    /\ lhs.dict["title"] # rhs.dict["title"]
    /\ HasStrategy(lhs) /\ ~HasStrategy(rhs)
    /\ ParseEq(lhs, rhs) = Return(False)
    /\ cmp.out[1] = cmp.out[2]

\* C9 as claimed: comparison with an object of any other concrete class, an
\* instance of a subclass included, gives NotImplemented.
C9_OtherConcreteClassNotComparable ==
    (cmp.op = "__eq__" /\ rhs.cls # lhs.cls) =>
        cmp.out[1] = Return(NotImplemented)

\* C9 amended: __eq__ gives NotImplemented, without raising and without
\* looking at any attribute, exactly when the other object is not an instance
\* of the left operand's class; an instance of a subclass of that class is an
\* instance of it and is compared like one of the class itself.
C9_NotAnInstanceNotComparable ==
    (cmp.op = "__eq__") =>
        (cmp.out[1] = Return(NotImplemented)
            <=> lhs.cls \notin Range(getmro(rhs.cls)))

\* a SubParse on the left, a Parse on the right whose callable has no code to
\* compare: NotImplemented, and nothing raised
C9_Witness ==
    /\ cmp.op = "__eq__"
    /\ lhs.cls = "SubParse"
    /\ rhs.cls = "Parse"
    /\ ~HasCode(rhs)
    /\ cmp.out[1] = Return(NotImplemented)

(***************************************************************************)
(* SpecPickle: a wrapper is built, saved, restored and called              *)
(***************************************************************************)
BaseFunctions == {"is_positive", "is_even"}

\* md = multidispatch(fn)
Wrap(fn) ==
    /\ md' = multidispatch(fn)
    /\ pickled' = NoPickle
    /\ restored' = NoWrapper
    /\ dsp' = NoDispatch
    /\ UNCHANGED <<regVars, eqVars>>

\* md.register(fn)
Register(fn) ==
    /\ md.kind = "multidispatch"
    /\ \/ IndexOfKey(md.table, Hints(fn), 1) # 0
       \/ Len(md.table) <= MaxVariants
    /\ md' = register(md, fn)
    /\ UNCHANGED <<pickled, restored, dsp, regVars, eqVars>>

\* pickled = md.__reduce__() ; of records the wrapper the value was taken of
Save ==
    /\ md.kind = "multidispatch"
    /\ md' = [md EXCEPT !.attrs = reduce(md).state]
    /\ pickled' = [callable |-> reduce(md).callable,
                   args     |-> reduce(md).args,
                   state    |-> reduce(md).state,
                   of       |-> md']
    /\ restored' = NoWrapper
    /\ dsp' = NoDispatch
    /\ UNCHANGED <<regVars, eqVars>>

\* restored = multidispatch(*args) ; restored.__setstate__(state)
Restore ==
    /\ pickled.callable = "multidispatch"
    /\ restored' = Rebuild(pickled)
    /\ UNCHANGED <<md, pickled, dsp, regVars, eqVars>>

\* a call of the live wrapper, or of the restored one, on an instance of t
Call(on_restored, t) ==
    /\ IF on_restored THEN restored.kind = "multidispatch" ELSE md.kind = "multidispatch"
    /\ dsp' = [on  |-> IF on_restored THEN "restored" ELSE "md",
               arg |-> t,
               out |-> Dispatch(IF on_restored THEN restored ELSE md, t)]
    /\ UNCHANGED <<md, pickled, restored, regVars, eqVars>>

InitPickle ==
    /\ md = NoWrapper /\ pickled = NoPickle /\ restored = NoWrapper /\ dsp = NoDispatch
    /\ BACKEND_REGISTRY = EmptyDict
    /\ Parse_FUNCTION_REGISTRY = EmptyDict
    /\ REGISTERED_CUSTOM_PARSES = EmptyDict
    /\ call = NoCall
    /\ ret = Return(None)
    /\ lhs = None /\ rhs = None /\ cmp = NoCmp

NextPickle ==
    \/ \E fn \in BaseFunctions : Wrap(fn)
    \/ \E fn \in Functions : Register(fn)
    \/ Save
    \/ Restore
    \/ \E on_restored \in BOOLEAN, t \in DataTypes : Call(on_restored, t)

SpecPickle == InitPickle /\ [][NextPickle]_vars

====
